---- MODULE Spec2Model ----
(***************************************************************************)
(* The PPU register file of nesrs (src/src/ppu.rs) as a state machine.     *)
(*                                                                         *)
(* The PPU object is one record, `ppu`, holding the fields of struct PPU   *)
(* that the register functions read or write.  Every method of impl PPU is *)
(* an operator from a PPU record (and the method's arguments) to the PPU   *)
(* record the method leaves, computed statement by statement as in the     *)
(* source; an action applies one method to `ppu`.  `last` records the most *)
(* recent call: its name, arguments, returned value and the PPU it was     *)
(* applied to, so that a statement about "the state after X" is a state    *)
(* predicate.                                                              *)
(*                                                                         *)
(* u8 and u16 arithmetic is kept at its width; numbers written \H.. are    *)
(* the hexadecimal literals of the source.                                 *)
(***************************************************************************)
EXTENDS Integers, Sequences, FiniteSets, TLC

VARIABLES
    ppu,        \* the PPU object (struct PPU, ppu.rs:4-74)
    lifecycle,  \* "live" | "dropped" (moved into reset and dropped) | "panicked"
    last,       \* the most recent call on the PPU and what it returned
    watch,      \* whether the sequence in progress is being recorded
    run,        \* the recorded sequence: accesses to $2002, $2005, $2006, $2007
    data_accesses, \* number of $2007 accesses made so far (bounded by MaxDataAccesses)
    oam_writes  \* number of $2004 writes made so far (bounded by MaxOamWrites)

vars == <<ppu, lifecycle, last, watch, run, data_accesses, oam_writes>>

----------------------------------------------------------------------------
(* Bounds of the model. *)

\* $2007 accesses per behaviour of Spec
MaxDataAccesses == 2
\* $2004 writes per behaviour of Spec
MaxOamWrites == 2

----------------------------------------------------------------------------
(* Machine arithmetic. *)

U8  == 256
U16 == 65536

RECURSIVE BitAnd(_, _)
\* a & b on naturals
BitAnd(a, b) ==
    IF a = 0 \/ b = 0 THEN 0
    ELSE (IF a % 2 = 1 /\ b % 2 = 1 THEN 1 ELSE 0) + 2 * BitAnd(a \div 2, b \div 2)

RECURSIVE BitOr(_, _)
\* a | b on naturals
BitOr(a, b) ==
    IF a = 0 THEN b
    ELSE IF b = 0 THEN a
    ELSE (IF a % 2 = 1 \/ b % 2 = 1 THEN 1 ELSE 0) + 2 * BitOr(a \div 2, b \div 2)

RECURSIVE Pow2(_)
Pow2(n) == IF n = 0 THEN 1 ELSE 2 * Pow2(n - 1)

\* a >> n
Shr(a, n) == a \div Pow2(n)
\* a << n on a u16 (bits shifted past bit 15 are lost)
Shl16(a, n) == (a * Pow2(n)) % U16
\* a << n on a u8
Shl8(a, n) == (a * Pow2(n)) % U8

\* bit k of n, and bits hi..lo of n as a number: used to state the claims
\* independently of the masks above
Bit(n, k) == (n \div Pow2(k)) % 2
Bits(n, hi, lo) == (n \div Pow2(lo)) % Pow2(hi - lo + 1)

----------------------------------------------------------------------------
(* The PPU-side memory behind `memory: Box<dyn Memory>`.  Only the trait   *)
(* is in the source; the store is the interface's contract: a read returns *)
(* the byte last written to the address, or the byte the device held.      *)
(* A memory is the function from the addresses written so far to bytes.    *)

\* the byte an address holds before any write
MemBase(a) == (a + (a \div 256)) % U8

MemRead(m, a) == IF a \in DOMAIN m THEN m[a] ELSE MemBase(a)

MemWrite(m, a, b) == [c \in DOMAIN m \cup {a} |-> IF c = a THEN b ELSE m[c]]

----------------------------------------------------------------------------
(* struct PPU at power-on: every field the register functions use, zero.   *)
(* The arrays palete_data (32 bytes) and oam_data (256 bytes) are each held *)
(* as the function from the entries written so far to their bytes; an      *)
(* entry never written holds the 0 of power-on.                            *)

PaletteSize == 32
OamSize == 256

PowerOn ==
    [ cycle |-> 0, scanline |-> 0, frame |-> 0,
      palete_data |-> <<>>,
      oam_data |-> <<>>,
      v |-> 0, t |-> 0, x |-> 0, w |-> 0, f |-> 0,
      register |-> 0,
      nmi_occurred |-> FALSE, nmi_output |-> FALSE, nmi_prev |-> FALSE,
      nmi_delay |-> 0,
      flag_name_table |-> 0, flag_increment |-> 0, flag_sprite_table |-> 0,
      flag_background_table |-> 0, flag_sprite_size |-> 0,
      flag_master_slave |-> 0,
      flag_gray_scale |-> 0, flag_show_left_background |-> 0,
      flag_show_left_sprites |-> 0, flag_show_background |-> 0,
      flag_show_sprites |-> 0, flag_red_tint |-> 0, flag_green_tint |-> 0,
      flag_blue_tint |-> 0,
      flag_sprite_zero_hit |-> 0, flag_sprite_overflow |-> 0,
      oam_addr |-> 0,
      buffer_data |-> 0,
      memory |-> <<>> ]

\* self.palete_data[i], and self.palete_data[i] = b
PaletteGet(p, i) == IF i \in DOMAIN p.palete_data THEN p.palete_data[i] ELSE 0

PaletteSet(p, i, b) ==
    [p EXCEPT !.palete_data =
        [j \in DOMAIN p.palete_data \cup {i} |-> IF j = i THEN b ELSE p.palete_data[j]]]

\* self.oam_data[i], and self.oam_data[i] = b
OamGet(p, i) == IF i \in DOMAIN p.oam_data THEN p.oam_data[i] ELSE 0

OamSet(p, i, b) ==
    [p EXCEPT !.oam_data =
        [j \in DOMAIN p.oam_data \cup {i} |-> IF j = i THEN b ELSE p.oam_data[j]]]

\* what a method leaves: the PPU, the value returned, whether it panicked
Done(p, r) == [ppu |-> p, ret |-> r, panic |-> FALSE]
Panic(p) == [ppu |-> p, ret |-> 0, panic |-> TRUE]

----------------------------------------------------------------------------
(* impl PPU *)

\* fn nmi_change(&mut self) {}
NmiChange(p) == p

\* WriteControl that ors the nametable bits into t without clearing them
WriteControl_NoClear(p, value) ==
    LET p1 == [p EXCEPT
                 !.flag_name_table = BitAnd(Shr(value, 0), 3),
                 !.flag_increment = BitAnd(Shr(value, 2), 1),
                 !.flag_sprite_table = BitAnd(Shr(value, 3), 1),
                 !.flag_background_table = BitAnd(Shr(value, 4), 1),
                 !.flag_sprite_size = BitAnd(Shr(value, 5), 1),
                 !.flag_master_slave = BitAnd(Shr(value, 6), 1),
                 !.nmi_output = (BitAnd(Shr(value, 7), 1) = 1)]
    IN [p1 EXCEPT !.t = BitOr(p1.t, Shl16(BitAnd(value, \H03), 10))]

\* $2000: PPUCTRL
WriteControl(p, value) ==
    LET p1 == [p EXCEPT
                 !.flag_name_table = BitAnd(Shr(value, 0), 3),
                 !.flag_increment = BitAnd(Shr(value, 2), 1),
                 !.flag_sprite_table = BitAnd(Shr(value, 3), 1),
                 !.flag_background_table = BitAnd(Shr(value, 4), 1),
                 !.flag_sprite_size = BitAnd(Shr(value, 5), 1),
                 !.flag_master_slave = BitAnd(Shr(value, 6), 1),
                 !.nmi_output = (BitAnd(Shr(value, 7), 1) = 1)]
        p2 == NmiChange(p1)
    IN [p2 EXCEPT !.t = BitOr(BitAnd(p2.t, \HF3FF), Shl16(BitAnd(value, \H03), 10))]

\* $2001: PPUMASK.  flag_blue_tint is assigned twice, flag_green_tint never.
WriteMask(p, value) ==
    LET p1 == [p EXCEPT
                 !.flag_gray_scale = BitAnd(Shr(value, 0), 1),
                 !.flag_show_left_background = BitAnd(Shr(value, 1), 1),
                 !.flag_show_left_sprites = BitAnd(Shr(value, 2), 1),
                 !.flag_show_background = BitAnd(Shr(value, 3), 1),
                 !.flag_show_sprites = BitAnd(Shr(value, 4), 1),
                 !.flag_red_tint = BitAnd(Shr(value, 5), 1)]
        p2 == [p1 EXCEPT !.flag_blue_tint = BitAnd(Shr(value, 6), 1)]
    IN [p2 EXCEPT !.flag_blue_tint = BitAnd(Shr(value, 7), 1)]

\* ReadStatus that flips the write toggle where it should reset it
ReadStatus_FlipsToggle(p) ==
    LET r0 == BitAnd(p.register, \H1F)
        r1 == BitOr(r0, p.flag_sprite_overflow)
        r2 == BitOr(r1, p.flag_sprite_zero_hit)
        r4 == IF p.nmi_occurred THEN BitOr(r2, Shl8(1, 7)) ELSE r2
        p1 == NmiChange([p EXCEPT !.nmi_occurred = FALSE])
    IN Done([p1 EXCEPT !.w = 1 - p1.w], r4)

\* ReadStatus without the reset of the write toggle
ReadStatus_KeepsToggle(p) ==
    LET r0 == BitAnd(p.register, \H1F)
        r4 == IF p.nmi_occurred THEN BitOr(r0, Shl8(1, 7)) ELSE r0
    IN Done([p EXCEPT !.nmi_occurred = FALSE], r4)

\* $2002: PPUSTATUS.  The flags are or-ed in unshifted; zero-hit twice.
ReadStatus(p) ==
    LET r0 == BitAnd(p.register, \H1F)
        r1 == BitOr(r0, p.flag_sprite_overflow)
        r2 == BitOr(r1, p.flag_sprite_zero_hit)
        r3 == BitOr(r2, p.flag_sprite_zero_hit)
        r4 == IF p.nmi_occurred THEN BitOr(r3, Shl8(1, 7)) ELSE r3
        p1 == NmiChange([p EXCEPT !.nmi_occurred = FALSE])
    IN Done([p1 EXCEPT !.w = 0], r4)

\* $2003: OAMADDR
WriteOamAddr(p, value) == [p EXCEPT !.oam_addr = value]

\* read_oam_data that returns the attribute bytes unmasked
ReadOamData_NoMask(p) == Done(p, OamGet(p, p.oam_addr))

\* $2004: OAMDATA (read)
ReadOamData(p) ==
    LET data == OamGet(p, p.oam_addr)
    IN Done(p, IF BitAnd(p.oam_addr, \H03) = \H02 THEN BitAnd(data, \HE3) ELSE data)

\* $2004: OAMDATA (write).  `self.oam_addr += 1` on a u8: with overflow
\* checks (`checked`) the addition panics at 255, without them it wraps.
WriteOamData(p, value, checked) ==
    LET p1 == OamSet(p, p.oam_addr, value)
    IN IF p1.oam_addr + 1 >= U8
       THEN IF checked THEN Panic(p1)
            ELSE Done([p1 EXCEPT !.oam_addr = (p1.oam_addr + 1) % U8], 0)
       ELSE Done([p1 EXCEPT !.oam_addr = p1.oam_addr + 1], 0)

\* write_scroll whose second write takes fine-y from the top three bits of
\* the value and coarse-y from the low five
WriteScroll_FineYFromTop(p, value) ==
    IF p.w = 0
    THEN [p EXCEPT !.t = BitOr(BitAnd(p.t, \H8FFE0), Shr(value, 3)),
                   !.x = BitAnd(value, \H07),
                   !.w = 1]
    ELSE LET t1 == BitOr(BitAnd(p.t, \H8FFF), Shl16(Shr(value, 5), 12))
             t2 == BitOr(BitAnd(t1, \HFC1F), Shl16(BitAnd(value, \H1F), 5))
         IN [p EXCEPT !.t = t2, !.w = 0]

\* $2005: PPUSCROLL.  The first mask is written 0x8FFE0 in the source: wider
\* than the u16 it masks, so only its low 16 bits (0xFFE0) take part.
WriteScroll(p, value) ==
    IF p.w = 0
    THEN [p EXCEPT !.t = BitOr(BitAnd(p.t, \H8FFE0), Shr(value, 3)),
                   !.x = BitAnd(value, \H07),
                   !.w = 1]
    ELSE LET t1 == BitOr(BitAnd(p.t, \H8FFF), Shl16(BitAnd(value, \H07), 12))
             t2 == BitOr(BitAnd(t1, \HFC1F), Shl16(BitAnd(value, \HF8), 2))
         IN [p EXCEPT !.t = t2, !.w = 0]

\* WriteAddr whose second write leaves the toggle at 1
WriteAddr_KeepsToggle(p, value) ==
    IF p.w = 0
    THEN [p EXCEPT !.t = BitOr(BitAnd(p.t, \H80FF), Shl16(BitAnd(value, \H3F), 8)),
                   !.w = 1]
    ELSE LET t1 == BitOr(BitAnd(p.t, \HFF00), value)
         IN [p EXCEPT !.t = t1, !.v = t1]

\* WriteAddr that copies t into v on the first write as well
WriteAddr_CopiesOnFirst(p, value) ==
    IF p.w = 0
    THEN LET t1 == BitOr(BitAnd(p.t, \H80FF), Shl16(BitAnd(value, \H3F), 8))
         IN [p EXCEPT !.t = t1, !.v = t1, !.w = 1]
    ELSE LET t1 == BitOr(BitAnd(p.t, \HFF00), value)
         IN [p EXCEPT !.t = t1, !.v = t1, !.w = 0]

\* WriteAddr whose first write keeps bit 14 of t (mask 0xC0FF for 0x80FF)
WriteAddr_KeepsBit14(p, value) ==
    IF p.w = 0
    THEN [p EXCEPT !.t = BitOr(BitAnd(p.t, \HC0FF), Shl16(BitAnd(value, \H3F), 8)),
                   !.w = 1]
    ELSE LET t1 == BitOr(BitAnd(p.t, \HFF00), value)
         IN [p EXCEPT !.t = t1, !.v = t1, !.w = 0]

\* $2006: PPUADDR
WriteAddr(p, value) ==
    IF p.w = 0
    THEN [p EXCEPT !.t = BitOr(BitAnd(p.t, \H80FF), Shl16(BitAnd(value, \H3F), 8)),
                   !.w = 1]
    ELSE LET t1 == BitOr(BitAnd(p.t, \HFF00), value)
         IN [p EXCEPT !.t = t1, !.v = t1, !.w = 0]

\* `self.v += 1` / `self.v += 32` on a u16, shared by read_data and
\* write_data: panics on overflow with overflow checks, wraps without.
IncrementV(p, ret, checked) ==
    LET step == IF p.flag_increment = 0 THEN 1 ELSE 32
    IN IF p.v + step >= U16
       THEN IF checked THEN Panic(p)
            ELSE Done([p EXCEPT !.v = (p.v + step) % U16], ret)
       ELSE Done([p EXCEPT !.v = p.v + step], ret)

\* read_data that returns the byte just read, unbuffered, at every address
ReadData_Unbuffered(p, checked) ==
    LET value == MemRead(p.memory, p.v)
    IN IncrementV([p EXCEPT !.buffer_data = value], value, checked)

\* $2007: PPUDATA (read)
ReadData(p, checked) ==
    LET value == MemRead(p.memory, p.v)
    IN IF p.v % \H4000 < \H3F00
       THEN IncrementV([p EXCEPT !.buffer_data = value], p.buffer_data, checked)
       ELSE IncrementV([p EXCEPT !.buffer_data = MemRead(p.memory, p.v - \H1000)],
                       value, checked)

\* $2007: PPUDATA (write)
WriteData(p, value, checked) ==
    IncrementV([p EXCEPT !.memory = MemWrite(p.memory, p.v, value)], 0, checked)

\* $4014: OAMDMA.  Prints the value; no field changes.
WriteDma(p, value) == p

\* the mirroring with > for >=: address 16 is not mirrored
PaletteIndex_Above16(addr) == IF addr > 16 /\ addr % 4 = 0 THEN addr - 16 ELSE addr

\* fn read_palette / fn write_palette share the index computation; an index
\* past the 32 entries panics (a bounds-checked array access).
PaletteIndex(addr) == IF addr >= 16 /\ addr % 4 = 0 THEN addr - 16 ELSE addr

ReadPalette(p, addr) ==
    LET a == PaletteIndex(addr)
    IN IF a < PaletteSize THEN Done(p, PaletteGet(p, a)) ELSE Panic(p)

\* write_palette that stores at the address as given, without the mirroring
WritePalette_NoMirror(p, addr, value) ==
    IF addr < PaletteSize THEN Done(PaletteSet(p, addr, value), 0) ELSE Panic(p)

WritePalette(p, addr, value) ==
    LET a == PaletteIndex(addr)
    IN IF a < PaletteSize
       THEN Done(PaletteSet(p, a, value), 0)
       ELSE Panic(p)

\* fn read_register: any other address reads 0
ReadRegister(p, addr, checked) ==
    CASE addr = \H2002 -> ReadStatus(p)
      [] addr = \H2004 -> ReadOamData(p)
      [] addr = \H2007 -> ReadData(p, checked)
      [] OTHER -> Done(p, 0)

\* read_register(addr) called n times in a row, as a loop of the CPU reading
\* a port does; it stops at the first call that panics.
RECURSIVE ReadRegisterTimes(_, _, _, _)
ReadRegisterTimes(p, addr, n, checked) ==
    IF n = 0 THEN Done(p, 0)
    ELSE IF n = 1 THEN ReadRegister(p, addr, checked)
    ELSE LET half == ReadRegisterTimes(p, addr, n \div 2, checked)
         IN IF half.panic THEN half
            ELSE ReadRegisterTimes(half.ppu, addr, n - (n \div 2), checked)

\* fn write_register: the latch `register` takes the value, then the port's
\* function runs.  The match has no arm for any other address.
WritePorts == {\H2000, \H2001, \H2003, \H2004, \H2005, \H2006, \H2007, \H4014}

WriteRegister(p, addr, value, checked) ==
    LET p1 == [p EXCEPT !.register = value]
    IN CASE addr = \H2000 -> Done(WriteControl(p1, value), 0)
         [] addr = \H2001 -> Done(WriteMask(p1, value), 0)
         [] addr = \H2003 -> Done(WriteOamAddr(p1, value), 0)
         [] addr = \H2004 -> WriteOamData(p1, value, checked)
         [] addr = \H2005 -> Done(WriteScroll(p1, value), 0)
         [] addr = \H2006 -> Done(WriteAddr(p1, value), 0)
         [] addr = \H2007 -> WriteData(p1, value, checked)
         [] addr = \H4014 -> Done(WriteDma(p1, value), 0)

\* Reset without the write of 0 to the mask register
Reset_NoMask(p) ==
    LET p1 == [p EXCEPT !.cycle = 340, !.scanline = 240, !.frame = 0]
    IN WriteOamAddr(WriteControl(p1, 0), 0)

\* fn reset(mut self): the PPU as the function leaves it.  `self` is taken by
\* value, so the PPU is moved into the call and dropped when it returns.
Reset(p) ==
    LET p1 == [p EXCEPT !.cycle = 340, !.scanline = 240, !.frame = 0]
    IN WriteOamAddr(WriteMask(WriteControl(p1, 0), 0), 0)

----------------------------------------------------------------------------
(* impl Memory for CPUMemory: the CPU-facing memory.  A read returns 0 at  *)
(* every address, a write does nothing.                                    *)

CpuMemoryRead(addr) == 0

----------------------------------------------------------------------------
(* The PPU's step function is not in the source.  From the specification:  *)
(* the PPU raises the vblank flag at vertical blank and the sprite flags   *)
(* during sprite evaluation, and clears them again before the next frame.  *)

StepVblank(p, on) == [p EXCEPT !.nmi_occurred = on]

StepSpriteFlags(p, overflow, hit) ==
    [p EXCEPT !.flag_sprite_overflow = overflow, !.flag_sprite_zero_hit = hit]

----------------------------------------------------------------------------
(* The state machine. *)

NoCall == [op |-> "new", addr |-> 0, value |-> 0, ret |-> 0, pre |-> PowerOn]

InitPPU ==
    /\ ppu = PowerOn
    /\ lifecycle = "live"
    /\ last = NoCall
    /\ run = <<>>
    /\ data_accesses = 0
    /\ oam_writes = 0

Init == InitPPU /\ watch = FALSE
InitWatched == InitPPU /\ watch = TRUE

\* The sequence in progress.  On the shared write toggle: it starts at a
\* read of $2002 or at a $2005/$2006 write made with w = 0, and holds the
\* $2005/$2006 writes made since.  On the data port: the consecutive reads
\* of $2007.  On the palette: a write_palette and the read_palette that
\* follows it.  Any other access ends it; it holds at most MaxRun accesses,
\* each with the write toggle as it was before the access.
MaxRun == 5

IsLatchWrite(op, addr) == op = "write_register" /\ addr \in {\H2005, \H2006}
IsStatusRead(op, addr) == op = "read_register" /\ addr = \H2002
IsDataRead(op, addr) == op = "read_register" /\ addr = \H2007

NextRun(op, addr, value) ==
    LET e == [op |-> op, addr |-> addr, value |-> value, w |-> ppu.w]
        open == run # <<>> /\ Len(run) < MaxRun
    IN IF ~watch THEN <<>>
       ELSE IF IsStatusRead(op, addr) THEN <<e>>
       ELSE IF IsLatchWrite(op, addr)
       THEN IF open /\ ~IsDataRead(run[1].op, run[1].addr) THEN Append(run, e)
            ELSE IF ppu.w = 0 THEN <<e>>
            ELSE <<>>
       ELSE IF IsDataRead(op, addr)
       THEN IF open /\ IsDataRead(run[1].op, run[1].addr) THEN Append(run, e)
            ELSE <<e>>
       ELSE IF op = "write_palette" THEN <<e>>
       ELSE IF op = "read_palette"
       THEN IF Len(run) = 1 /\ run[1].op = "write_palette" THEN Append(run, e)
            ELSE <<>>
       ELSE <<>>

\* one call on the PPU, with what it leaves
Call(op, addr, value, out) ==
    /\ lifecycle = "live"
    /\ ppu' = out.ppu
    /\ last' = [op |-> op, addr |-> addr, value |-> value, ret |-> out.ret,
                pre |-> ppu]
    /\ run' = NextRun(op, addr, value)
    /\ UNCHANGED watch
    /\ data_accesses' = IF addr = \H2007 THEN data_accesses + 1 ELSE data_accesses
    /\ oam_writes' = IF op = "write_register" /\ addr = \H2004
                     THEN oam_writes + 1 ELSE oam_writes

\* overflow checks on or off matter only where the code adds
BuildModes(addr) == IF addr \in {\H2004, \H2007} THEN BOOLEAN ELSE {TRUE}

Budget(op, addr) ==
    /\ addr = \H2007 => data_accesses < MaxDataAccesses
    /\ (op = "write_register" /\ addr = \H2004) => oam_writes < MaxOamWrites

DoWriteRegister(addr, value) ==
    /\ Budget("write_register", addr)
    /\ \E checked \in BuildModes(addr) :
         LET out == WriteRegister(ppu, addr, value, checked)
         IN /\ Call("write_register", addr, value, out)
            /\ lifecycle' = IF out.panic THEN "panicked" ELSE "live"

DoReadRegister(addr) ==
    /\ Budget("read_register", addr)
    /\ \E checked \in BuildModes(addr) :
         LET out == ReadRegister(ppu, addr, checked)
         IN /\ Call("read_register", addr, 0, out)
            /\ lifecycle' = IF out.panic THEN "panicked" ELSE "live"

\* a loop of LoopLen reads of one port, made before any single access to
\* the data port
LoopLen == 1024

DoReadRegisterLoop(addr) ==
    /\ Budget("read_register_loop", addr)
    /\ data_accesses = 0
    /\ \E checked \in BuildModes(addr) :
         LET out == ReadRegisterTimes(ppu, addr, LoopLen, checked)
         IN /\ Call("read_register_loop", addr, 0, out)
            /\ lifecycle' = IF out.panic THEN "panicked" ELSE "live"

DoReset ==
    /\ Call("reset", 0, 0, Done(Reset(ppu), 0))
    /\ lifecycle' = "dropped"

DoStepVblank(on) ==
    /\ Call("step_vblank", 0, 0, Done(StepVblank(ppu, on), 0))
    /\ lifecycle' = "live"

DoStepSpriteFlags(overflow, hit) ==
    /\ Call("step_sprites", 0, 0, Done(StepSpriteFlags(ppu, overflow, hit), 0))
    /\ lifecycle' = "live"

DoReadPalette(addr) ==
    LET out == ReadPalette(ppu, addr)
    IN /\ Call("read_palette", addr, 0, out)
       /\ lifecycle' = IF out.panic THEN "panicked" ELSE "live"

DoWritePalette(addr, value) ==
    LET out == WritePalette(ppu, addr, value)
    IN /\ Call("write_palette", addr, value, out)
       /\ lifecycle' = IF out.panic THEN "panicked" ELSE "live"

----------------------------------------------------------------------------
(* Spec: the status, control, mask and OAM-address registers, the flags the *)
(* PPU's step raises, and reset.                                            *)

Bytes == {\H00, \HFF}

Next ==
    \/ \E addr \in {\H2000, \H2001, \H2003, \H2005}, value \in Bytes :
           DoWriteRegister(addr, value)
    \/ \E addr \in {\H2000, \H2002} : DoReadRegister(addr)
    \/ DoReset
    \/ \E on \in BOOLEAN : DoStepVblank(on)
    \/ \E overflow \in {0, 1}, hit \in {0, 1} : DoStepSpriteFlags(overflow, hit)

Spec == Init /\ [][Next]_vars

---------------------------------------------------------------------------------------------------------------------------------------------------
(* SpecLatch: sequences of writes to $2005 and $2006 on the shared write   *)
(* toggle, with reads of $2002, recorded in `run`.                         *)

LatchBytes == {\H00, \HFF}

NextLatch ==
    \/ \E addr \in {\H2005, \H2006}, value \in LatchBytes :
           DoWriteRegister(addr, value)
    \/ DoReadRegister(\H2002)

SpecLatch == InitWatched /\ [][NextLatch]_vars

---------------------------------------------------------------------------------------------------------------------------------------------------
(* SpecControl: the control register next to the scroll and address        *)
(* registers it shares t with.                                             *)

ControlBytes == {\H00, \H55, \HAA, \HFF}

NextControl ==
    \/ \E value \in ControlBytes : DoWriteRegister(\H2000, value)
    \/ \E addr \in {\H2005, \H2006} : DoWriteRegister(addr, \HFF)
    \/ DoReadRegister(\H2002)

SpecControl == Init /\ [][NextControl]_vars

----------------------------------------------------------------------------
(* SpecScroll: pairs of writes to the scroll register $2005, over values   *)
(* of t set through the address register $2006, with reads of $2002.       *)

ScrollBytes == {\H00, \H5A, \HFF}

NextScroll ==
    \/ \E value \in ScrollBytes : DoWriteRegister(\H2005, value)
    \/ DoWriteRegister(\H2006, \HFF)
    \/ DoReadRegister(\H2002)

SpecScroll == InitWatched /\ [][NextScroll]_vars

----------------------------------------------------------------------------
(* SpecPorts: every port of write_register and read_register, one value   *)
(* per write port, and a read of an address that is no readable port.  The *)
(* ports that move a cursor ($2004 written, $2007) are used once in all.   *)

PortBytes == {\H5A}
ReadAddrs == {\H2000, \H2002, \H2004}
CursorFree == data_accesses + oam_writes = 0

NextPorts ==
    \/ \E addr \in WritePorts \ {\H2004, \H2007}, value \in PortBytes :
           DoWriteRegister(addr, value)
    \/ \E addr \in ReadAddrs : DoReadRegister(addr)
    \/ CursorFree /\ \E addr \in {\H2004, \H2007}, value \in PortBytes :
                        DoWriteRegister(addr, value)
    \/ CursorFree /\ DoReadRegister(\H2007)

SpecPorts == Init /\ [][NextPorts]_vars

----------------------------------------------------------------------------
(* SpecAddr: the scroll and address registers with the control register    *)
(* and reads of the data port.                                             *)

NextAddr ==
    \/ \E value \in {\H00, \HFF} : DoWriteRegister(\H2000, value)
    \/ \E addr \in {\H2005, \H2006} : DoWriteRegister(addr, \HFF)
    \/ DoReadRegister(\H2007)

SpecAddr == Init /\ [][NextAddr]_vars

----------------------------------------------------------------------------
(* SpecData: reads of the data port $2007 with the address register and   *)
(* the increment flag.  The address bytes give addresses below the palette *)
(* range (0x3E3E), at its edge (0x3EFF) and inside it (0x3F3E, 0x3FFF).    *)

AddrBytes == {\H3E, \HFF}
IncrementBytes == {\H00, \H04}

NextData ==
    \/ \E value \in IncrementBytes : DoWriteRegister(\H2000, value)
    \/ \E value \in AddrBytes : DoWriteRegister(\H2006, value)
    \/ DoReadRegister(\H2007)

SpecData == InitWatched /\ [][NextData]_vars

----------------------------------------------------------------------------
(* SpecIncrement: reads and writes of the data port $2007 with either      *)
(* increment, from addresses up to 0x7FFF and, after a loop of reads, up   *)
(* to the top of the u16 that holds v.                                     *)

NextIncrement ==
    \/ \E value \in IncrementBytes : DoWriteRegister(\H2000, value)
    \/ \E addr \in {\H2005, \H2006} : DoWriteRegister(addr, \HFF)
    \/ DoWriteRegister(\H2007, \HA5)
    \/ DoReadRegister(\H2007)
    \/ DoReadRegisterLoop(\H2007)

SpecIncrement == Init /\ [][NextIncrement]_vars

----------------------------------------------------------------------------
(* SpecOam: the OAM cursor $2003, the OAM data port $2004 and the DMA port *)
(* $4014.  The cursor values are an ordinary entry, an attribute entry     *)
(* (c mod 4 = 2) and the last two entries of the table.                    *)

OamAddrs == {\H00, \H02, \HFE, \HFF}
OamBytes == {\H1C, \HFF}
DmaPages == {\H00, \H02}

NextOam ==
    \/ \E value \in OamAddrs : DoWriteRegister(\H2003, value)
    \/ \E value \in OamBytes : DoWriteRegister(\H2004, value)
    \/ DoReadRegister(\H2004)
    \/ \E value \in DmaPages : DoWriteRegister(\H4014, value)

SpecOam == Init /\ [][NextOam]_vars

----------------------------------------------------------------------------
(* SpecPalette: the palette table.  The addresses are the four mirrored    *)
(* ones, the four they mirror, and one above 16 that is not mirrored.      *)

PaletteAddrs == {0, 4, 8, 12, 16, 20, 24, 28, 17}
Colours == {\H0F, \H30}

NextPalette ==
    \/ \E addr \in PaletteAddrs, value \in Colours : DoWritePalette(addr, value)
    \/ \E addr \in PaletteAddrs : DoReadPalette(addr)

SpecPalette == InitWatched /\ [][NextPalette]_vars

----------------------------------------------------------------------------
(* SpecPaletteWide: the palette functions over the u16 their address       *)
(* parameter has: addresses inside the table, just past it, the palette's  *)
(* addresses on the PPU bus, and the top of the u16.                       *)

WideAddrs == {0, 16, 31, 32, 33, \H3F00, \H3F1F, \HFFFF}

NextPaletteWide ==
    \/ \E addr \in WideAddrs, value \in Colours : DoWritePalette(addr, value)
    \/ \E addr \in WideAddrs : DoReadPalette(addr)

SpecPaletteWide == Init /\ [][NextPaletteWide]_vars

----------------------------------------------------------------------------
(* Claims on Spec. *)

IsCall(op, addr) == last.op = op /\ last.addr = addr

BoolBit(b) == IF b THEN 1 ELSE 0

\* C1: after a read of the status register $2002, from any state (whatever
\* nmi_occurred and w were), nmi_occurred is false and w is 0.
C1_StatusReadClears ==
    IsCall("read_register", \H2002) => (ppu.nmi_occurred = FALSE /\ ppu.w = 0)

\* a status read made with the vblank flag set and the toggle at 1
C1_Witness ==
    /\ IsCall("read_register", \H2002)
    /\ last.pre.nmi_occurred
    /\ last.pre.w = 1
    /\ ~ppu.nmi_occurred
    /\ ppu.w = 0

C7_StatusByte ==
    IsCall("read_register", \H2002) =>
        /\ Bits(last.ret, 4, 0) = Bits(last.pre.register, 4, 0)
        /\ Bit(last.ret, 5) = last.pre.flag_sprite_overflow
        /\ Bit(last.ret, 6) = last.pre.flag_sprite_zero_hit
        /\ Bit(last.ret, 7) = BoolBit(last.pre.nmi_occurred)

\* C8: after a write to the mask register $2001 the five low flags are bits
\* 0..4 of the value and the three tint flags are bits 5, 6, 7 in some order.
Perms567 ==
    { <<5, 6, 7>>, <<5, 7, 6>>, <<6, 5, 7>>, <<6, 7, 5>>, <<7, 5, 6>>, <<7, 6, 5>> }

C8_MaskFlags ==
    IsCall("write_register", \H2001) =>
        /\ ppu.flag_gray_scale = Bit(last.value, 0)
        /\ ppu.flag_show_left_background = Bit(last.value, 1)
        /\ ppu.flag_show_left_sprites = Bit(last.value, 2)
        /\ ppu.flag_show_background = Bit(last.value, 3)
        /\ ppu.flag_show_sprites = Bit(last.value, 4)
        /\ \E q \in Perms567 :
             /\ ppu.flag_red_tint = Bit(last.value, q[1])
             /\ ppu.flag_green_tint = Bit(last.value, q[2])
             /\ ppu.flag_blue_tint = Bit(last.value, q[3])

----------------------------------------------------------------------------
(* Claims on SpecLatch. *)

\* the number of accesses at the head of `run` that are the $2002 read
RunHead == IF run # <<>> /\ IsStatusRead(run[1].op, run[1].addr) THEN 1 ELSE 0

\* The last four accesses were writes to $2005, $2005, $2006, $2006, with
\* nothing in between, and the first of them was made with w = 0: the run
\* started with w = 0 and an even number of toggle writes came before.
ScrollScrollAddrAddr ==
    LET n == Len(run)
    IN /\ n - RunHead >= 4
       /\ (n - RunHead) % 2 = 0
       /\ run[n - 3].addr = \H2005 /\ run[n - 2].addr = \H2005
       /\ run[n - 1].addr = \H2006 /\ run[n].addr = \H2006

\* C2: starting with w = 0, after the writes b1, b2 to $2005 and b3, b4 to
\* $2006, w = 0, v = ((b3 & 0x3F) << 8) | b4 (so bit 14 and bit 15 of v are
\* 0) and t = v.
C2_ScrollThenAddr ==
    ScrollScrollAddrAddr =>
        LET b3 == run[Len(run) - 1].value
            b4 == run[Len(run)].value
        IN /\ ppu.w = 0
           /\ ppu.v = (b3 % 64) * 256 + b4
           /\ ppu.t = ppu.v

\* the four writes made with fine-y = 7 in t (bit 14 set by the second
\* scroll write) and the high address byte 0xFF (bits 7, 6 to be dropped)
C2_Witness ==
    /\ ScrollScrollAddrAddr
    /\ run[Len(run) - 2].value = \HFF
    /\ run[Len(run) - 1].value = \HFF
    /\ run[Len(run)].value = \H00
    /\ ppu.v = \H3F00
    /\ ppu.w = 0

----------------------------------------------------------------------------
(* Claims on SpecControl and SpecAddr. *)

\* C9: after a write of value to the control register $2000, the nametable
\* flag is value & 3, increment, sprite-table, background-table, sprite-size,
\* master-slave and nmi_output are bits 2..7, bits 11..10 of t are value & 3,
\* and every other bit of t and all of v, x and w are as before.
C9_ControlWrite ==
    IsCall("write_register", \H2000) =>
        /\ ppu.flag_name_table = last.value % 4
        /\ ppu.flag_increment = Bit(last.value, 2)
        /\ ppu.flag_sprite_table = Bit(last.value, 3)
        /\ ppu.flag_background_table = Bit(last.value, 4)
        /\ ppu.flag_sprite_size = Bit(last.value, 5)
        /\ ppu.flag_master_slave = Bit(last.value, 6)
        /\ ppu.nmi_output = (Bit(last.value, 7) = 1)
        /\ Bits(ppu.t, 11, 10) = last.value % 4
        /\ Bits(ppu.t, 15, 12) = Bits(last.pre.t, 15, 12)
        /\ Bits(ppu.t, 9, 0) = Bits(last.pre.t, 9, 0)
        /\ ppu.v = last.pre.v
        /\ ppu.x = last.pre.x
        /\ ppu.w = last.pre.w

\* a control write that changes the nametable bits of a t whose other bits
\* are set, with v and x non-zero and the toggle at 1
C9_Witness ==
    /\ IsCall("write_register", \H2000)
    /\ last.value = \HAA
    /\ Bits(last.pre.t, 11, 10) = 3
    /\ Bits(last.pre.t, 15, 12) # 0 /\ Bits(last.pre.t, 9, 0) # 0
    /\ last.pre.v # 0 /\ last.pre.x # 0 /\ last.pre.w = 1
    /\ Bits(ppu.t, 11, 10) = 2
    /\ ppu.flag_sprite_table = 1 /\ ppu.flag_increment = 0

\* C6: v and t are 15-bit values in every state reachable by register reads
\* and writes: bit 15 of each is 0.
C6_FifteenBit == ppu.v < 32768 /\ ppu.t < 32768

----------------------------------------------------------------------------
(* Claims on SpecPalette. *)

\* the palette addresses that mirror the one 16 below
Mirrored == {16, 20, 24, 28}

\* the other address of the same palette entry, for an entry that has two
Mirror(a) == IF a \in Mirrored THEN a - 16 ELSE a + 16

\* C3: a read_palette(a) that immediately follows write_palette(a, v)
\* returns v, for every palette address a and byte v.
C3_PaletteRoundTrip ==
    (last.op = "read_palette" /\ Len(run) = 2 /\ run[1].addr = last.addr) =>
        last.ret = run[1].value

\* a write to a mirrored address read back at once, with other entries set
C3_Witness ==
    /\ last.op = "read_palette" /\ Len(run) = 2
    /\ run[1].addr = 20 /\ last.addr = 20
    /\ run[1].value = \H30 /\ last.ret = \H30
    /\ PaletteGet(ppu, 17) = \H0F /\ PaletteGet(ppu, 0) = \H0F

\* C4: for a in {16, 20, 24, 28}, read_palette(a) = read_palette(a - 16) in
\* every state reachable by palette writes; a write to a or to a - 16 is
\* read back at both addresses; entries 16, 20, 24, 28 of the table are
\* never written.
C4_PaletteMirror ==
    /\ \A a \in Mirrored :
         /\ ReadPalette(ppu, a).ret = ReadPalette(ppu, a - 16).ret
         /\ a \notin DOMAIN ppu.palete_data
    /\ (/\ last.op = "read_palette" /\ Len(run) = 2
        /\ run[1].addr \in Mirrored \cup {a - 16 : a \in Mirrored}
        /\ last.addr \in {run[1].addr, Mirror(run[1].addr)})
       => last.ret = run[1].value

\* a write to 28 read back at 12, over another colour
C4_Witness ==
    /\ last.op = "read_palette" /\ Len(run) = 2
    /\ run[1].addr = 28 /\ run[1].value = \H0F
    /\ last.addr = 12 /\ last.ret = \H0F
    /\ 12 \in DOMAIN ppu.palete_data
    /\ PaletteGet(ppu, 0) = \H30 /\ PaletteGet(ppu, 8) = \H30

----------------------------------------------------------------------------
(* Claims on SpecData. *)

InPaletteRange(a) == a % 16384 >= 16128

\* C10: a read of $2007 with v below the palette range returns the read
\* buffer as it was and leaves the byte at v in the buffer, so the second of
\* two consecutive such reads with increment 0, at A + 1, returns the byte at
\* A; a read with v in the palette range returns the byte at v and leaves the
\* byte at v - 0x1000 in the buffer.
C10_BufferedRead ==
    (IsCall("read_register", \H2007) /\ lifecycle = "live") =>
        /\ ~InPaletteRange(last.pre.v) =>
             /\ last.ret = last.pre.buffer_data
             /\ ppu.buffer_data = MemRead(last.pre.memory, last.pre.v)
        /\ InPaletteRange(last.pre.v) =>
             /\ last.ret = MemRead(last.pre.memory, last.pre.v)
             /\ ppu.buffer_data = MemRead(last.pre.memory, last.pre.v - 4096)
        /\ (/\ Len(run) >= 2
            /\ last.pre.flag_increment = 0
            /\ last.pre.v >= 1
            /\ ~InPaletteRange(last.pre.v - 1)
            /\ ~InPaletteRange(last.pre.v))
           => last.ret = MemRead(last.pre.memory, last.pre.v - 1)

\* two consecutive reads below the palette range, the second returning the
\* byte at the first one's address
C10_Witness ==
    /\ IsCall("read_register", \H2007)
    /\ Len(run) = 2
    /\ last.pre.flag_increment = 0
    /\ last.pre.v = \H3E3F
    /\ last.ret = MemBase(\H3E3E)
    /\ last.ret # last.pre.register
    /\ ppu.buffer_data = MemBase(\H3E3F)
    /\ ppu.v = \H3E40

\* a read in the palette range
C10_WitnessPalette ==
    /\ IsCall("read_register", \H2007)
    /\ last.pre.v = \H3F3E
    /\ last.ret = MemBase(\H3F3E)
    /\ ppu.buffer_data = MemBase(\H2F3E)

----------------------------------------------------------------------------
(* Claims on SpecIncrement. *)

IncrementStep(p) == IF p.flag_increment = 0 THEN 1 ELSE 32

\* C11: every read and every write of $2007 completes without error and
\* advances v by 1 (increment flag 0) or by 32 (increment flag 1), from every
\* value of v; the access is made at v as it was before, and a write stores
\* its byte there and leaves the read buffer alone.
C11_IncrementCompletes ==
    (last.addr = \H2007 /\ last.op \in {"read_register", "write_register"}) =>
        /\ lifecycle = "live"
        /\ ppu.v = (last.pre.v + IncrementStep(last.pre)) % U16
        /\ last.op = "write_register" =>
             /\ MemRead(ppu.memory, last.pre.v) = last.value
             /\ ppu.buffer_data = last.pre.buffer_data
        /\ (last.op = "read_register" /\ ~InPaletteRange(last.pre.v)) =>
             ppu.buffer_data = MemRead(last.pre.memory, last.pre.v)

----------------------------------------------------------------------------
(* Claims on SpecOam. *)

OamIndexes == 0 .. (OamSize - 1)

\* C12: a write of b to $2004 with the cursor at c, for every c in 0..255,
\* completes without error, stores b at OAM[c], leaves every other OAM byte
\* as it was, and moves the cursor to (c + 1) mod 256.
C12_OamWriteAdvances ==
    IsCall("write_register", \H2004) =>
        LET c == last.pre.oam_addr
        IN /\ lifecycle = "live"
           /\ OamGet(ppu, c) = last.value
           /\ \A i \in OamIndexes \ {c} : OamGet(ppu, i) = OamGet(last.pre, i)
           /\ ppu.oam_addr = (c + 1) % OamSize

\* C14: after a write of page p to $4014, the 256 bytes of OAM, taken from
\* the cursor on, are the 256 bytes the CPU-facing memory holds at p*256 ..
\* p*256 + 255, in that order.
C14_DmaCopiesPage ==
    IsCall("write_register", \H4014) =>
        \A i \in OamIndexes :
            OamGet(ppu, (last.pre.oam_addr + i) % OamSize)
                = CpuMemoryRead(last.value * 256 + i)

\* C16: a read of $2004 with the cursor at c returns OAM[c], with bits 4..2
\* cleared when c mod 4 = 2; it changes neither the cursor nor any OAM byte,
\* and a second read returns the same value.
C16_OamRead ==
    IsCall("read_register", \H2004) =>
        LET c == last.pre.oam_addr
            byte == OamGet(last.pre, c)
        IN /\ lifecycle = "live"
           /\ c % 4 = 2 => /\ Bits(last.ret, 7, 5) = Bits(byte, 7, 5)
                           /\ Bits(last.ret, 4, 2) = 0
                           /\ Bits(last.ret, 1, 0) = Bits(byte, 1, 0)
           /\ c % 4 # 2 => last.ret = byte
           /\ ppu.oam_addr = c
           /\ \A i \in OamIndexes : OamGet(ppu, i) = OamGet(last.pre, i)
           /\ ReadRegister(ppu, \H2004, TRUE).ret = last.ret

\* a read of an attribute entry holding 0xFF, and a read of an ordinary
\* entry holding 0x1C
C16_Witness ==
    /\ IsCall("read_register", \H2004)
    /\ last.pre.oam_addr = \H02
    /\ OamGet(last.pre, \H02) = \HFF
    /\ last.ret = \HE3

C16_WitnessPlain ==
    /\ IsCall("read_register", \H2004)
    /\ last.pre.oam_addr = \H00
    /\ OamGet(last.pre, \H00) = \H1C
    /\ last.ret = \H1C

----------------------------------------------------------------------------
(* Claims on Spec: the NMI edge. *)

\* C13: when a write to $2000 or a read of $2002 leaves (nmi_output and
\* nmi_occurred) true with nmi_prev false before it, nmi_delay is set to a
\* nonzero value and nmi_prev records the new level; when the conjunction
\* does not rise, nmi_delay is left as it was.
C13_NmiRisingEdge ==
    (IsCall("write_register", \H2000) \/ IsCall("read_register", \H2002)) =>
        LET nmi == ppu.nmi_output /\ ppu.nmi_occurred
            rise == nmi /\ ~last.pre.nmi_prev
        IN /\ rise => (ppu.nmi_delay > 0 /\ ppu.nmi_prev = nmi)
           /\ ~rise => ppu.nmi_delay = last.pre.nmi_delay

----------------------------------------------------------------------------
(* Claims on SpecPaletteWide. *)

\* C15: for every 16-bit address given to read_palette or write_palette, the
\* index used on the 32-entry table is within 0..31 and the call completes
\* without an out-of-bounds access or an error.
C15_PaletteInBounds ==
    last.op \in {"read_palette", "write_palette"} =>
        /\ PaletteIndex(last.addr) \in 0 .. (PaletteSize - 1)
        /\ lifecycle = "live"

----------------------------------------------------------------------------
(* Claims on SpecScroll. *)

\* the last two accesses were writes to $2005 with nothing in between, the
\* first of them made with w = 0
ScrollScroll ==
    LET n == Len(run)
    IN /\ n >= 2
       /\ IsLatchWrite(run[n - 1].op, run[n - 1].addr) /\ run[n - 1].addr = \H2005
       /\ IsLatchWrite(run[n].op, run[n].addr) /\ run[n].addr = \H2005
       /\ run[n - 1].w = 0

\* C17: starting with w = 0 and any t, after the writes b1 then b2 to $2005,
\* x = b1 & 7, bits 4..0 of t are b1 >> 3, bits 9..5 are b2 >> 3, bits 14..12
\* are b2 & 7 and w = 0; each of the two writes leaves bits 11..10 and bit
\* 15 of t and all of v as they were, and w is 1 after the first.
C17_ScrollPair ==
    /\ ScrollScroll =>
         LET b1 == run[Len(run) - 1].value
             b2 == run[Len(run)].value
         IN /\ ppu.x = b1 % 8
            /\ Bits(ppu.t, 4, 0) = b1 \div 8
            /\ Bits(ppu.t, 9, 5) = b2 \div 8
            /\ Bits(ppu.t, 14, 12) = b2 % 8
            /\ ppu.w = 0
            /\ last.pre.w = 1
    /\ IsCall("write_register", \H2005) =>
         /\ Bits(ppu.t, 11, 10) = Bits(last.pre.t, 11, 10)
         /\ Bit(ppu.t, 15) = Bit(last.pre.t, 15)
         /\ ppu.v = last.pre.v
         /\ ppu.w = 1 - last.pre.w

\* the pair 0x5A, 0xFF written over a t with every bit of 14..0 set, and the
\* pair 0xFF, 0x5A
C17_Witness ==
    /\ ScrollScroll
    /\ run[Len(run) - 1].value = \H5A
    /\ run[Len(run)].value = \HFF
    /\ Bits(last.pre.t, 11, 10) = 3
    /\ ppu.x = 2
    /\ ppu.t = \H7FEB

C17_WitnessFineY ==
    /\ ScrollScroll
    /\ run[Len(run) - 1].value = \HFF
    /\ run[Len(run)].value = \H5A
    /\ Bits(ppu.t, 14, 12) = 2
    /\ Bits(ppu.t, 9, 5) = 11

----------------------------------------------------------------------------
(* Claims on SpecLatch: the status read and the write toggle. *)

\* the accesses since the last read of $2002, that read included, are the
\* read and n writes to $2005/$2006
ReadThenWrites(n) ==
    /\ Len(run) = n + 1
    /\ IsStatusRead(run[1].op, run[1].addr)

\* C20: whatever was written before a read of $2002, the first write to
\* $2005 or $2006 after the read is the first of a pair (w becomes 1, v is
\* left alone), and two writes b then c to $2006 after the read end with
\* w = 0 and v = ((b & 0x3F) << 8) | c.
C20_StatusReadRestarts ==
    /\ ReadThenWrites(1) => (ppu.w = 1 /\ ppu.v = last.pre.v)
    /\ (ReadThenWrites(2) /\ run[2].addr = \H2006 /\ run[3].addr = \H2006) =>
         /\ ppu.w = 0
         /\ ppu.v = (run[2].value % 64) * 256 + run[3].value

\* a $2006 write of 0x00 (w = 1), the read, then 0xFF and 0xFF
C20_Witness ==
    /\ ReadThenWrites(2)
    /\ run[1].w = 1
    /\ run[2].addr = \H2006 /\ run[2].value = \HFF
    /\ run[3].addr = \H2006 /\ run[3].value = \HFF
    /\ Bits(last.pre.t, 7, 0) = 0
    /\ ppu.v = \H3FFF

----------------------------------------------------------------------------
(* Claims on SpecPorts. *)

IsRegisterAccess == last.op \in {"read_register", "write_register"}

\* C18: w is 0 or 1 and x is within 0..7 in every state; a write to $2005
\* or to $2006 flips w, a read of $2002 leaves it 0, and every other
\* register access leaves w as it was.
C18_ToggleShared ==
    /\ ppu.w \in {0, 1}
    /\ ppu.x \in 0 .. 7
    /\ IsRegisterAccess =>
         IF IsLatchWrite(last.op, last.addr) THEN ppu.w = 1 - last.pre.w
         ELSE IF IsStatusRead(last.op, last.addr) THEN ppu.w = 0
         ELSE ppu.w = last.pre.w

\* a write to $2006 made second of a pair, after a first write to $2005
\* (fine-x set, coarse-x in t), and a write to $2007 with w = 1
C18_Witness ==
    /\ IsCall("write_register", \H2006)
    /\ last.pre.w = 1
    /\ last.pre.x = 2 /\ Bits(last.pre.t, 4, 0) = 11 /\ Bits(last.pre.t, 13, 8) = 0
    /\ ppu.w = 0

C18_WitnessData ==
    /\ IsCall("write_register", \H2007)
    /\ last.pre.w = 1
    /\ ppu.w = 1

\* the accesses that may change v: the second write of a pair to $2006, and
\* any access to $2007
ChangesV ==
    \/ (IsCall("write_register", \H2006) /\ last.pre.w = 1)
    \/ (IsRegisterAccess /\ last.addr = \H2007)

\* C19: v is changed only by a second-of-pair write to $2006, which copies
\* t into it, or by a read or write of $2007; every other register access,
\* a first-of-pair write to $2006 included, leaves v as it was.
C19_OnlyAddrAndData ==
    IsRegisterAccess =>
        /\ ~ChangesV => ppu.v = last.pre.v
        /\ (IsCall("write_register", \H2006) /\ last.pre.w = 1) => ppu.v = ppu.t

\* a first-of-pair write to $2006 that changed t and left v, which differs
\* from t, alone
C19_Witness ==
    /\ IsCall("write_register", \H2006)
    /\ last.pre.w = 0
    /\ ppu.t # last.pre.t
    /\ ppu.v = last.pre.v
    /\ ppu.v # ppu.t

C19_WitnessCopy ==
    /\ IsCall("write_register", \H2006)
    /\ last.pre.w = 1
    /\ ppu.v # last.pre.v
    /\ ppu.v = \H1A5A

====
